---- MODULE Spec2Model ----
(***************************************************************************)
(* The tee filter of MaxScale (server/modules/filter/tee/tee.c): a filter  *)
(* session that forwards every query down the primary chain and routes a   *)
(* clone of the qualifying ones into a branch session on another service.  *)
(***************************************************************************)
EXTENDS Integers, Sequences, FiniteSets, TLC

NULL == "NULL"

(* ------------------------------------------------------------------ *)
(* Protocol constants                                                  *)
(* ------------------------------------------------------------------ *)
MYSQL_COM_QUIT == 1
MYSQL_COM_INITDB == 2
MYSQL_COM_QUERY == 3
MYSQL_COM_FIELD_LIST == 4
MYSQL_COM_CHANGE_USER == 17
MYSQL_COM_STMT_PREPARE == 22
MYSQL_COM_STMT_EXECUTE == 23
MYSQL_COM_STMT_SEND_LONG_DATA == 24
MYSQL_COM_STMT_CLOSE == 25
MYSQL_COM_STMT_RESET == 26
MYSQL_COM_CONNECT == 27

\* The zero-terminated table of commands that are always sent to the branch.
required_packets ==
    << MYSQL_COM_QUIT, MYSQL_COM_INITDB, MYSQL_COM_CHANGE_USER,
       MYSQL_COM_STMT_PREPARE, MYSQL_COM_STMT_EXECUTE,
       MYSQL_COM_STMT_SEND_LONG_DATA, MYSQL_COM_STMT_CLOSE,
       MYSQL_COM_STMT_RESET, MYSQL_COM_CONNECT, 0 >>

(* ------------------------------------------------------------------ *)
(* Bounds                                                              *)
(* ------------------------------------------------------------------ *)
\* Total number of filters attached to the services of a configuration.
MaxFilters == 4
\* Number of routeQuery calls made on a session.
MaxQueries == 2
\* Number of closeSession calls made on a session.
MaxCloses == 2
MaxReplies == 1
MaxReplyLog == 2
NumThreads == 2
MaxParams == 2
MaxOptions == 1

(* ------------------------------------------------------------------ *)
(* Value spaces                                                        *)
(* ------------------------------------------------------------------ *)
Services == {"A", "B", "C"}
Remotes == {"10.0.0.5", "10.0.0.9"}
Users == {"alice", "bob"}
Texts == {"SELECT 1", "INSERT INTO t VALUES(1)"}
SessionIds == {"ses1"}

\* A compiled regular expression is modelled by the set of texts it matches.
Language(re) ==
    CASE re = "^SELECT" -> {"SELECT 1"}
      [] re = "^INSERT" -> {"INSERT INTO t VALUES(1)"}
      [] OTHER -> {}
Patterns == {"^SELECT", "^INSERT"}

\* regexec(re, ptr, ...) returns 0 on a match.
regexec(re, ptr) == IF ptr \in Language(re) THEN 0 ELSE 1

\* A query buffer: the length of its first (contiguous) buffer, the byte at
\* offset 4 (defined when length > 4) and the SQL text the buffer carries.
Commands ==
    { MYSQL_COM_QUIT, MYSQL_COM_INITDB, MYSQL_COM_QUERY, MYSQL_COM_FIELD_LIST,
      MYSQL_COM_CHANGE_USER, MYSQL_COM_STMT_PREPARE, MYSQL_COM_STMT_EXECUTE,
      MYSQL_COM_STMT_SEND_LONG_DATA, MYSQL_COM_STMT_CLOSE,
      MYSQL_COM_STMT_RESET, MYSQL_COM_CONNECT, 0 }

Buffers ==
    { [length |-> 4, command |-> 0, sql |-> NULL] }
    \cup { [length |-> 5, command |-> c, sql |-> NULL] : c \in Commands }
    \cup { [length |-> 9, command |-> MYSQL_COM_QUERY, sql |-> t] : t \in Texts }
    \cup { [length |-> 9, command |-> c, sql |-> t] :
             c \in {MYSQL_COM_STMT_PREPARE, MYSQL_COM_INITDB}, t \in Texts }

GWBUF_LENGTH(queue) == queue.length

\* The textual SQL of a buffer, or NULL when there is none to extract.
modutil_get_SQL(buffer) == buffer.sql

\* A filter definition attached to a service: its module name, whether its
\* instance pointer is set (filter != NULL) and, for a tee instance, the
\* name of its target service.
FilterDefs ==
    { [module |-> "qlafilter", resolved |-> TRUE, service |-> NULL],
      [module |-> "tee", resolved |-> FALSE, service |-> NULL] }
    \cup { [module |-> "tee", resolved |-> TRUE, service |-> s] : s \in Services }

FilterLists(n) == [1..n -> FilterDefs]

\* Every attachment of at most MaxFilters filters to the three services.
FilterCounts ==
    { n \in (0..MaxFilters) \X (0..MaxFilters) \X (0..MaxFilters) :
        n[1] + n[2] + n[3] <= MaxFilters }

\* The attachments with n[1], n[2] and n[3] filters on A, B and C.
Graphs(n) ==
    [A : FilterLists(n[1]), B : FilterLists(n[2]), C : FilterLists(n[3])]

\* The configurations used to exercise a session: a plain tee from A to B,
\* and the same with a tee on B that leads back to A.
SessionGraphs ==
    { [A |-> << [module |-> "tee", resolved |-> TRUE, service |-> "B"] >>,
       B |-> << >>, C |-> << >>],
      [A |-> << [module |-> "tee", resolved |-> TRUE, service |-> "B"] >>,
       B |-> << [module |-> "tee", resolved |-> TRUE, service |-> "A"] >>,
       C |-> << >>] }

VARIABLES
    filters,        \* service name -> the filters attached to the service
    instance,       \* TEE_INSTANCE: service, source, userName, match, nomatch
    session,        \* the client SESSION: service name, remote, user
    phase,          \* "init", "failed" (newSession returned NULL), "open", "freed"
    my_session,     \* TEE_SESSION
    ses,            \* the branch SESSION objects
    dcb,            \* the cloned client DCB: "none", "open", "closed"
    allOrphans,     \* the orphan list, head first
    log_error,      \* the last MXS_ERROR of newSession
    n_calls,        \* routeQuery calls made
    last_call,      \* what the last routeQuery call did
    n_branch_routed,\* clones routed into the branch session
    n_close,        \* closeSession calls made
    last_reply,     \* what the last clientReply call did
    hooks,          \* calls made into collaborators
    awaiting,       \* the command of the query the primary has yet to answer
    replies,        \* replies in order: handed to clientReply, passed upstream,
                    \* written by the branch session to its own client DCB
    config,         \* createInstance: options, parameters and what it returned
    threads,        \* thread -> where it is in freeSession, with its locals
    orphanLock,     \* the holder of the spinlock of the orphan list, or NULL
    record          \* the TEE_SESSION record: "none", "allocated", "freed"

vars == << filters, instance, session, phase, my_session, ses, dcb, allOrphans,
           log_error, n_calls, last_call, n_branch_routed, n_close, last_reply,
           hooks, awaiting, replies, config, threads, orphanLock, record >>

PARENT == 0
CHILD == 1

(* ------------------------------------------------------------------ *)
(* Match engine                                                        *)
(* ------------------------------------------------------------------ *)
\* Number of entries of required_packets before its terminating zero.
RequiredCount ==
    CHOOSE n \in 0..(Len(required_packets) - 1) :
        /\ required_packets[n + 1] = 0
        /\ \A j \in 1..n : required_packets[j] # 0

\* packet_is_required with the length test off by one.
packet_is_required_short(queue) ==
    IF /\ GWBUF_LENGTH(queue) > 5
       /\ \E i \in 1..RequiredCount : queue.command = required_packets[i]
    THEN 1 ELSE 0

packet_is_required(queue) ==
    IF /\ GWBUF_LENGTH(queue) > 4
       /\ \E i \in 1..RequiredCount : queue.command = required_packets[i]
    THEN 1 ELSE 0

\* clone_query without the test of the extracted text for NULL: a missing
\* text matches no pattern.
clone_query_unchecked(my_instance, buffer) ==
    IF (my_instance.match = NULL /\ my_instance.nomatch = NULL)
       \/ packet_is_required(buffer) # 0
    THEN << buffer >>
    ELSE LET ptr == modutil_get_SQL(buffer) IN
         IF (my_instance.match # NULL /\ regexec(my_instance.match, ptr) = 0)
            \/ (my_instance.nomatch # NULL /\ regexec(my_instance.nomatch, ptr) # 0)
         THEN << buffer >>
         ELSE << >>

\* clone_query with the two pattern tests joined by && instead of ||.
clone_query_and(my_instance, buffer) ==
    IF (my_instance.match = NULL /\ my_instance.nomatch = NULL)
       \/ packet_is_required(buffer) # 0
    THEN << buffer >>
    ELSE LET ptr == modutil_get_SQL(buffer) IN
         IF ptr # NULL
         THEN IF (my_instance.match = NULL \/ regexec(my_instance.match, ptr) = 0)
                 /\ (my_instance.nomatch = NULL \/ regexec(my_instance.nomatch, ptr) # 0)
              THEN << buffer >>
              ELSE << >>
         ELSE << >>

\* The clone of the buffer (a full copy), or the empty sequence for no clone.
clone_query(my_instance, buffer) ==
    IF (my_instance.match = NULL /\ my_instance.nomatch = NULL)
       \/ packet_is_required(buffer) # 0
    THEN << buffer >>
    ELSE LET ptr == modutil_get_SQL(buffer) IN
         IF ptr # NULL
         THEN IF (my_instance.match # NULL /\ regexec(my_instance.match, ptr) = 0)
                 \/ (my_instance.nomatch # NULL /\ regexec(my_instance.nomatch, ptr) # 0)
              THEN << buffer >>
              ELSE << >>
         ELSE << >>

(* ------------------------------------------------------------------ *)
(* Loop detector                                                       *)
(* ------------------------------------------------------------------ *)
RECURSIVE detect_loops(_, _, _), detect_loops_filters(_, _, _, _)
RECURSIVE detect_loops_filters_unchecked(_, _, _, _)

\* ht is the set of service names added to the hash table so far; the table
\* is shared by the whole traversal, so the result carries it along.
detect_loops(graph, ht, service) ==
    IF service \in ht
    THEN [rval |-> TRUE, ht |-> ht]
    ELSE detect_loops_filters(graph, ht \cup {service}, service, 1)

\* The for loop with the result of the recursive call dropped.
detect_loops_filters_unchecked(graph, ht, svc, i) ==
    IF i > Len(graph[svc])
    THEN [rval |-> FALSE, ht |-> ht]
    ELSE LET f == graph[svc][i] IN
         IF f.module = "tee" /\ f.resolved
         THEN LET r == detect_loops(graph, ht, f.service) IN
              detect_loops_filters_unchecked(graph, r.ht, svc, i + 1)
         ELSE detect_loops_filters_unchecked(graph, ht, svc, i + 1)

\* The for loop over svc->filters, from the i-th filter on.
detect_loops_filters(graph, ht, svc, i) ==
    IF i > Len(graph[svc])
    THEN [rval |-> FALSE, ht |-> ht]
    ELSE LET f == graph[svc][i] IN
         IF f.module = "tee" /\ f.resolved
         THEN LET r == detect_loops(graph, ht, f.service) IN
              IF r.rval THEN r ELSE detect_loops_filters(graph, r.ht, svc, i + 1)
         ELSE detect_loops_filters(graph, ht, svc, i + 1)

\* newSession refuses the session for recursion.
is_recursive(graph, my_instance, sess) ==
    \/ my_instance.service = sess.service
    \/ detect_loops(graph, {}, sess.service).rval

(* ------------------------------------------------------------------ *)
(* Branch session manager                                              *)
(* ------------------------------------------------------------------ *)
\* gate_active without the user gate.
gate_active_source_only(my_instance, sess) ==
    IF my_instance.source # NULL /\ sess.remote # NULL
       /\ sess.remote # my_instance.source
    THEN 0 ELSE 1

\* The active flag after the source and user gates of newSession.
gate_active(my_instance, sess) ==
    LET a1 == IF my_instance.source # NULL /\ sess.remote # NULL
                 /\ sess.remote # my_instance.source
              THEN 0 ELSE 1
    IN IF my_instance.userName # NULL /\ sess.user # NULL
          /\ sess.user # my_instance.userName
       THEN 0 ELSE a1

\* A zeroed TEE_SESSION, as MXS_CALLOC returns it.
TEE_SESSION ==
    [ active |-> 0, branch_session |-> NULL, branch_dcb |-> NULL,
      n_duped |-> 0, n_rejected |-> 0, command |-> 0,
      waiting |-> [side \in {PARENT, CHILD} |-> FALSE] ]

\* A branch SESSION that is not allocated.
NoSession == [state |-> "NONE", refcount |-> 0, client_dcb |-> NULL, n_free |-> 0,
              ses_lock |-> NULL]

\* session_alloc(service, dcb): a child session ready for use on the service.
session_alloc == [state |-> "SESSION_STATE_ROUTER_READY", refcount |-> 1,
                  client_dcb |-> "dcb", n_free |-> 0, ses_lock |-> NULL]


\* session_put_ref(ses): one reference to the session is released.
session_put_ref(s, id) == [s EXCEPT ![id].refcount = s[id].refcount - 1]

(* ------------------------------------------------------------------ *)
(* Orphan reaper                                                       *)
(* ------------------------------------------------------------------ *)
\* An unlinking that leaves the entry on the list.
unlink_nothing(list, ptr) == list

\* The list without its first entry for ptr (the unlinking of orphan_free).
RECURSIVE unlink(_, _)
unlink(list, ptr) ==
    IF list = << >> THEN << >>
    ELSE IF Head(list) = ptr THEN Tail(list)
    ELSE << Head(list) >> \o unlink(Tail(list), ptr)

\* create_orphan(ses): a new entry at the head of the list.
create_orphan(list, id) == << id >> \o list

\* A scan that marks every stopping session, referenced or not.
RECURSIVE orphan_scan_unreferenced(_, _, _, _)
orphan_scan_unreferenced(todo, list, finished, s) ==
    IF todo = << >>
    THEN [allOrphans |-> list, finished |-> finished, ses |-> s]
    ELSE LET ptr == Head(todo)
             tmp == s[ptr].state = "SESSION_STATE_TO_BE_FREED"
             marked == s[ptr].state = "SESSION_STATE_STOPPING"
         IN orphan_scan_unreferenced(Tail(todo),
                        IF tmp THEN unlink(list, ptr) ELSE list,
                        IF tmp THEN << ptr >> \o finished ELSE finished,
                        IF marked
                        THEN [s EXCEPT ![ptr].state = "SESSION_STATE_TO_BE_FREED"]
                        ELSE s)

\* A scan that marks a stopping session before it looks for sessions to
\* unlink.
RECURSIVE orphan_scan_marks_first(_, _, _, _)
orphan_scan_marks_first(todo, list, finished, s) ==
    IF todo = << >>
    THEN [allOrphans |-> list, finished |-> finished, ses |-> s]
    ELSE LET ptr == Head(todo)
             marked == /\ s[ptr].state = "SESSION_STATE_STOPPING"
                       /\ s[ptr].refcount = 0
                       /\ s[ptr].client_dcb = NULL
             tmp == marked \/ s[ptr].state = "SESSION_STATE_TO_BE_FREED"
         IN orphan_scan_marks_first(Tail(todo),
                        IF tmp THEN unlink(list, ptr) ELSE list,
                        IF tmp THEN << ptr >> \o finished ELSE finished,
                        IF marked
                        THEN [s EXCEPT ![ptr].state = "SESSION_STATE_TO_BE_FREED"]
                        ELSE s)

\* The scan of orphan_free under orphanLock: todo are the entries still to
\* visit, list the registry, finished the entries unlinked so far.
RECURSIVE orphan_scan(_, _, _, _)
orphan_scan(todo, list, finished, s) ==
    IF todo = << >>
    THEN [allOrphans |-> list, finished |-> finished, ses |-> s]
    ELSE LET ptr == Head(todo)
             tmp == s[ptr].state = "SESSION_STATE_TO_BE_FREED"
             marked == /\ s[ptr].state = "SESSION_STATE_STOPPING"
                       /\ s[ptr].refcount = 0
                       /\ s[ptr].client_dcb = NULL
         IN orphan_scan(Tail(todo),
                        IF tmp THEN unlink(list, ptr) ELSE list,
                        IF tmp THEN << ptr >> \o finished ELSE finished,
                        IF marked
                        THEN [s EXCEPT ![ptr].state = "SESSION_STATE_TO_BE_FREED"]
                        ELSE s)

\* The second loop of orphan_free: the router's freeSession hook is called
\* for every finished entry and the session is freed.
RECURSIVE free_finished(_, _, _)
free_finished(finished, s, hk) ==
    IF finished = << >>
    THEN [ses |-> s, hooks |-> hk]
    ELSE LET id == Head(finished) IN
         free_finished(Tail(finished),
                       [s EXCEPT ![id].state = "SESSION_STATE_FREE",
                                 ![id].n_free = s[id].n_free + 1],
                       [hk EXCEPT !.router_freeSession = hk.router_freeSession + 1])

orphan_free(list, s, hk) ==
    LET scan == orphan_scan(list, list, << >>, s)
        done == free_finished(scan.finished, scan.ses, hk)
    IN [allOrphans |-> scan.allOrphans, ses |-> done.ses, hooks |-> done.hooks]

\* The body of freeSession for the session record ms: what becomes of the
\* branch session, of the orphan list and of the collaborators' hooks.
free_session(ms, list, s, hk) ==
    LET id == ms.branch_session
        state == IF id = NULL THEN "NONE" ELSE s[id].state
        s1 == IF state = "SESSION_STATE_ROUTER_READY"
              THEN session_put_ref(s, id)
              ELSE IF state = "SESSION_STATE_TO_BE_FREED"
              THEN [s EXCEPT ![id].state = "SESSION_STATE_FREE",
                             ![id].n_free = s[id].n_free + 1]
              ELSE s
        hk1 == IF state = "SESSION_STATE_TO_BE_FREED"
               THEN [hk EXCEPT !.router_freeSession = hk.router_freeSession + 1]
               ELSE hk
        list1 == IF state = "SESSION_STATE_STOPPING"
                 THEN create_orphan(list, id)
                 ELSE list
    IN orphan_free(list1, s1, hk1)

(* ------------------------------------------------------------------ *)
(* Initial states                                                      *)
(* ------------------------------------------------------------------ *)
\* The target services of the resolved tee filters attached to a service.
TeeTargets(graph, owner) ==
    { graph[owner][j].service :
        j \in { k \in 1..Len(graph[owner]) :
                  graph[owner][k].module = "tee" /\ graph[owner][k].resolved } }

\* The tee instances a service can own, one per resolved tee filter of the
\* service, with the source, user, match and exclude parameters drawn from
\* the given sets.
Instances(graph, owner, sources, users, matches, excludes) ==
    { [service |-> t, source |-> so, userName |-> u, match |-> m, nomatch |-> nm] :
        t \in TeeTargets(graph, owner), so \in sources, u \in users,
        m \in matches, nm \in excludes }

ClientSessions(remotes, users) ==
    { [service |-> "A", remote |-> r, user |-> u, client_dcb |-> "DCB_STATE_POLLING"] :
        r \in remotes, u \in users }

NoCall == [queue |-> << >>, down |-> << >>, status |-> 0, clone |-> << >>,
           branch |-> << >>, freed |-> << >>, rval |-> 0]

NoReply == [reply |-> << >>, up |-> << >>, status |-> 0, rval |-> 0]

NoReplies == [handed |-> << >>, up |-> << >>, branch |-> << >>]

\* What createInstance made of the configuration of the instance in use.
Created == [options |-> << >>, params |-> << >>, ret |-> "instance",
            errors |-> 0]

InitRest ==
    /\ phase = "init"
    /\ my_session = TEE_SESSION
    /\ ses = [id \in SessionIds |-> NoSession]
    /\ dcb = "none"
    /\ allOrphans = << >>
    /\ log_error = NULL
    /\ n_calls = 0
    /\ last_call = NoCall
    /\ n_branch_routed = 0
    /\ n_close = 0
    /\ last_reply = NoReply
    /\ hooks = [router_closeSession |-> 0, router_freeSession |-> 0,
                client_write |-> 0]
    /\ awaiting = << >>
    /\ replies = NoReplies
    /\ threads = << >>
    /\ orphanLock = NULL
    /\ record = "none"

\* A session of any client on a tee with or without a source, a user and a
\* match parameter.
Init ==
    /\ filters \in SessionGraphs
    /\ session \in ClientSessions(Remotes \cup {NULL}, Users \cup {NULL})
    /\ instance \in Instances(filters, session.service, {NULL, "10.0.0.5"},
                              {NULL, "alice"}, {NULL, "^SELECT"}, {NULL})
    /\ config = Created
    /\ InitRest


(* ------------------------------------------------------------------ *)
(* Entry points of the filter                                          *)
(* ------------------------------------------------------------------ *)
\* newSession that returns from a failed session_alloc without tearing down
\* what it has made.
newSession_leaking ==
    /\ phase = "init"
    /\ \E calloc_ok \in BOOLEAN, dcb_ok \in BOOLEAN, ses_ok \in BOOLEAN,
          id \in SessionIds :
        LET active == gate_active(instance, session)
            freed  == free_session(TEE_SESSION, allOrphans, ses, hooks)
        IN
        IF is_recursive(filters, instance, session)
        THEN /\ phase' = "failed"
             /\ log_error' = "Recursive use of tee filter in service."
             /\ UNCHANGED << my_session, ses, dcb, allOrphans, hooks, record >>
        ELSE IF ~calloc_ok
        THEN /\ phase' = "failed"
             /\ UNCHANGED << log_error, my_session, ses, dcb, allOrphans, hooks,
                             record >>
        ELSE IF active = 0
        THEN /\ phase' = "open"
             /\ my_session' = [TEE_SESSION EXCEPT !.active = 0]
             /\ record' = "allocated"
             /\ UNCHANGED << log_error, ses, dcb, allOrphans, hooks >>
        ELSE IF ~dcb_ok
        THEN /\ phase' = "failed"
             /\ log_error' = "Creating client DCB for Tee filter failed."
             /\ ses' = freed.ses
             /\ allOrphans' = freed.allOrphans
             /\ hooks' = freed.hooks
             /\ record' = "freed"
             /\ UNCHANGED << my_session, dcb >>
        ELSE IF ~ses_ok
        THEN /\ phase' = "failed"
             /\ log_error' = "Creating client session for Tee filter failed."
             /\ dcb' = "open"
             /\ record' = "allocated"
             /\ UNCHANGED << my_session, ses, allOrphans, hooks >>
        ELSE /\ phase' = "open"
             /\ ses[id].state = "NONE"
             /\ ses' = [ses EXCEPT ![id] = session_alloc]
             /\ dcb' = "open"
             /\ my_session' = [TEE_SESSION EXCEPT !.active = 1,
                                                  !.branch_session = id,
                                                  !.branch_dcb = "dcb"]
             /\ record' = "allocated"
             /\ UNCHANGED << log_error, allOrphans, hooks >>
    /\ UNCHANGED << awaiting, replies, config, threads, orphanLock >>
    /\ UNCHANGED << filters, instance, session, n_calls, last_call,
                    n_branch_routed, n_close, last_reply >>

\* newSession: refused for recursion, failed for want of memory, of the DCB
\* clone or of the branch session, or a session record that is returned.
newSession ==
    /\ phase = "init"
    /\ \E calloc_ok \in BOOLEAN, dcb_ok \in BOOLEAN, ses_ok \in BOOLEAN,
          id \in SessionIds :
        LET active == gate_active(instance, session)
            freed  == free_session(TEE_SESSION, allOrphans, ses, hooks)
        IN
        IF is_recursive(filters, instance, session)
        THEN /\ phase' = "failed"
             /\ log_error' = "Recursive use of tee filter in service."
             /\ UNCHANGED << my_session, ses, dcb, allOrphans, hooks, record >>
        ELSE IF ~calloc_ok
        THEN /\ phase' = "failed"
             /\ UNCHANGED << log_error, my_session, ses, dcb, allOrphans, hooks,
                             record >>
        ELSE IF active = 0
        THEN /\ phase' = "open"
             /\ my_session' = [TEE_SESSION EXCEPT !.active = 0]
             /\ record' = "allocated"
             /\ UNCHANGED << log_error, ses, dcb, allOrphans, hooks >>
        ELSE IF ~dcb_ok
        THEN /\ phase' = "failed"
             /\ log_error' = "Creating client DCB for Tee filter failed."
             /\ ses' = freed.ses
             /\ allOrphans' = freed.allOrphans
             /\ hooks' = freed.hooks
             /\ record' = "freed"
             /\ UNCHANGED << my_session, dcb >>
        ELSE IF ~ses_ok
        THEN /\ phase' = "failed"
             /\ log_error' = "Creating client session for Tee filter failed."
             /\ dcb' = "closed"
             /\ ses' = freed.ses
             /\ allOrphans' = freed.allOrphans
             /\ hooks' = freed.hooks
             /\ record' = "freed"
             /\ UNCHANGED my_session
        ELSE /\ phase' = "open"
             /\ ses[id].state = "NONE"
             /\ ses' = [ses EXCEPT ![id] = session_alloc]
             /\ dcb' = "open"
             /\ my_session' = [TEE_SESSION EXCEPT !.active = 1,
                                                  !.branch_session = id,
                                                  !.branch_dcb = "dcb"]
             /\ record' = "allocated"
             /\ UNCHANGED << log_error, allOrphans, hooks >>
    /\ UNCHANGED << awaiting, replies, config, threads, orphanLock >>
    /\ UNCHANGED << filters, instance, session, n_calls, last_call,
                    n_branch_routed, n_close, last_reply >>

\* The condition under which route_single_query routes anything at all.
branch_usable(ms, s) ==
    /\ ms.active # 0
    /\ ms.branch_session # NULL
    /\ s[ms.branch_session].state = "SESSION_STATE_ROUTER_READY"

\* route_single_query for the buffer and its clone. status is what the
\* primary downstream routeQuery returns; torn says that the branch session
\* is torn down by its router while the primary is being routed, between
\* the two reads of its state.
route_single_query(buffer, clone, status, torn) ==
    IF branch_usable(my_session, ses)
    THEN LET id == my_session.branch_session
             s2 == IF torn
                   THEN [ses EXCEPT ![id].state = "SESSION_STATE_STOPPING"]
                   ELSE ses
             ready == s2[id].state = "SESSION_STATE_ROUTER_READY"
         IN /\ ses' = s2
            /\ awaiting' = << buffer.command >>
            /\ IF clone = << >>
               THEN /\ last_call' = [queue |-> << buffer >>, down |-> << buffer >>,
                                     status |-> status, clone |-> clone,
                                     branch |-> << >>, freed |-> << >>,
                                     rval |-> status]
                    /\ UNCHANGED << my_session, n_branch_routed >>
               ELSE IF ready
               THEN /\ last_call' = [queue |-> << buffer >>, down |-> << buffer >>,
                                     status |-> status, clone |-> clone,
                                     branch |-> clone, freed |-> << >>,
                                     rval |-> status]
                    /\ my_session' = [my_session EXCEPT
                                         !.n_duped = my_session.n_duped + 1]
                    /\ n_branch_routed' = n_branch_routed + 1
               ELSE /\ last_call' = [queue |-> << buffer >>, down |-> << buffer >>,
                                     status |-> status, clone |-> clone,
                                     branch |-> << >>, freed |-> clone,
                                     rval |-> 0]
                    /\ my_session' = [my_session EXCEPT
                                         !.n_duped = my_session.n_duped + 1,
                                         !.active = 0]
                    /\ UNCHANGED n_branch_routed
    ELSE /\ last_call' = [queue |-> << buffer >>, down |-> << >>,
                          status |-> 0, clone |-> clone,
                          branch |-> << >>, freed |-> << >>, rval |-> 0]
         /\ UNCHANGED << my_session, ses, n_branch_routed, awaiting >>

\* routeQuery for one buffer out of the set queues.
route(queues) ==
    /\ phase = "open"
    /\ n_calls < MaxQueries
    /\ \E queue \in queues, status \in {0, 1}, torn \in BOOLEAN :
          route_single_query(queue, clone_query(instance, queue), status, torn)
    /\ n_calls' = n_calls + 1
    /\ UNCHANGED << replies, config, threads, orphanLock, record >>
    /\ UNCHANGED << filters, instance, session, phase, dcb, allOrphans,
                    log_error, n_close, last_reply, hooks >>

\* The queries a client session sends: a disconnect, a field list and a
\* statement of each text.
SessionQueries ==
    { b \in Buffers :
        \/ b.length = 5 /\ b.command \in {MYSQL_COM_QUIT, MYSQL_COM_FIELD_LIST}
        \/ b.command = MYSQL_COM_QUERY /\ b.sql # NULL }

routeQuery == route(SessionQueries)

\* clientReply that holds the reply back while a clone routed into the
\* branch session has no answer yet.
reply_upstream_held(buffers, max) ==
    /\ phase = "open"
    /\ Len(replies.handed) < max
    /\ \E reply \in buffers, status \in {0, 1} :
          LET held == Len(replies.branch) < n_branch_routed IN
          /\ last_reply' = [reply |-> << reply >>,
                            up |-> IF held THEN << >> ELSE << reply >>,
                            status |-> status,
                            rval |-> IF held THEN 1 ELSE status]
          /\ replies' = [replies EXCEPT
                            !.handed = Append(@, reply),
                            !.up = IF held THEN @ ELSE Append(@, reply)]
    /\ awaiting' = << >>
    /\ UNCHANGED << config, threads, orphanLock, record >>
    /\ UNCHANGED << filters, instance, session, phase, my_session, ses, dcb,
                    allOrphans, log_error, n_calls, last_call, n_branch_routed,
                    n_close, hooks >>

\* clientReply for one reply out of the set buffers, the max-th at most: the
\* reply goes to the upstream clientReply and its status comes back. The
\* query that was in flight has its answer.
reply_upstream(buffers, max) ==
    /\ phase = "open"
    /\ Len(replies.handed) < max
    /\ \E reply \in buffers, status \in {0, 1} :
          /\ last_reply' = [reply |-> << reply >>, up |-> << reply >>,
                            status |-> status, rval |-> status]
          /\ replies' = [replies EXCEPT !.handed = Append(@, reply),
                                        !.up = Append(@, reply)]
    /\ awaiting' = << >>
    /\ UNCHANGED << config, threads, orphanLock, record >>
    /\ UNCHANGED << filters, instance, session, phase, my_session, ses, dcb,
                    allOrphans, log_error, n_calls, last_call, n_branch_routed,
                    n_close, hooks >>

\* clientReply that switches duplication back on when a reply arrives.
clientReply_reactivating ==
    /\ phase = "open"
    /\ Len(replies.handed) < MaxReplies
    /\ \E reply \in {"OK"}, status \in {0, 1} :
          /\ last_reply' = [reply |-> << reply >>, up |-> << reply >>,
                            status |-> status, rval |-> status]
          /\ replies' = [replies EXCEPT !.handed = Append(@, reply),
                                        !.up = Append(@, reply)]
    /\ awaiting' = << >>
    /\ my_session' = [my_session EXCEPT !.active = 1]
    /\ UNCHANGED << config, threads, orphanLock, record >>
    /\ UNCHANGED << filters, instance, session, phase, ses, dcb,
                    allOrphans, log_error, n_calls, last_call, n_branch_routed,
                    n_close, hooks >>

clientReply == reply_upstream({"OK"}, MaxReplies)

\* The error reply of closeSession is written when the parent side waits
\* for a reply, the command is not COM_QUIT and the client DCB polls.
writes_error(ms, sess) ==
    /\ ms.waiting[PARENT]
    /\ ms.command # MYSQL_COM_QUIT
    /\ sess.client_dcb = "DCB_STATE_POLLING"

\* closeSession that leaves the active flag as it found it.
closeSession_keeps_active ==
    /\ phase = "open"
    /\ n_close < MaxCloses
    /\ n_close' = n_close + 1
    /\ IF my_session.active # 0
       THEN LET bsession == my_session.branch_session IN
            /\ ses' = IF bsession # NULL
                      THEN [ses EXCEPT ![bsession].state = "SESSION_STATE_STOPPING"]
                      ELSE ses
            /\ hooks' = [hooks EXCEPT
                            !.router_closeSession =
                                IF bsession # NULL THEN @ + 1 ELSE @,
                            !.client_write =
                                IF writes_error(my_session, session)
                                THEN @ + 1 ELSE @]
            /\ UNCHANGED my_session
       ELSE UNCHANGED << ses, hooks, my_session >>
    /\ UNCHANGED << awaiting, replies, config, threads, orphanLock, record >>
    /\ UNCHANGED << filters, instance, session, phase, dcb, allOrphans,
                    log_error, n_calls, last_call, n_branch_routed, last_reply >>

\* closeSession: a session that duplicates stops its branch session, has the
\* router of the branch close its session, answers a waiting client and
\* stops duplicating; any other session is left as it is.
closeSession ==
    /\ phase = "open"
    /\ n_close < MaxCloses
    /\ n_close' = n_close + 1
    /\ IF my_session.active # 0
       THEN LET bsession == my_session.branch_session IN
            /\ ses' = IF bsession # NULL
                      THEN [ses EXCEPT ![bsession].state = "SESSION_STATE_STOPPING"]
                      ELSE ses
            /\ hooks' = [hooks EXCEPT
                            !.router_closeSession =
                                IF bsession # NULL THEN @ + 1 ELSE @,
                            !.client_write =
                                IF writes_error(my_session, session)
                                THEN @ + 1 ELSE @]
            /\ my_session' = [my_session EXCEPT !.active = 0]
       ELSE UNCHANGED << ses, hooks, my_session >>
    /\ UNCHANGED << awaiting, replies, config, threads, orphanLock, record >>
    /\ UNCHANGED << filters, instance, session, phase, dcb, allOrphans,
                    log_error, n_calls, last_call, n_branch_routed, last_reply >>

\* freeSession, called by the core once the session has been closed. The
\* session record is freed; my_session keeps the last contents of it.
freeSession ==
    /\ phase = "open"
    /\ n_close > 0
    /\ LET freed == free_session(my_session, allOrphans, ses, hooks) IN
          /\ ses' = freed.ses
          /\ allOrphans' = freed.allOrphans
          /\ hooks' = freed.hooks
    /\ phase' = "freed"
    /\ record' = "freed"
    /\ UNCHANGED << awaiting, replies, config, threads, orphanLock >>
    /\ UNCHANGED << filters, instance, session, my_session, dcb, log_error,
                    n_calls, last_call, n_branch_routed, n_close, last_reply >>

(* ------------------------------------------------------------------ *)
(* The branch session in the hands of its own service                  *)
(* ------------------------------------------------------------------ *)
\* The branch session is torn down by its router.
session_stop ==
    /\ \E id \in DOMAIN ses :
          /\ ses[id].state = "SESSION_STATE_ROUTER_READY"
          /\ ses[id].ses_lock = NULL
          /\ ses' = [ses EXCEPT ![id].state = "SESSION_STATE_STOPPING"]
    /\ UNCHANGED << awaiting, replies, config, threads, orphanLock, record >>
    /\ UNCHANGED << filters, instance, session, phase, my_session, dcb,
                    allOrphans, log_error, n_calls, last_call, n_branch_routed,
                    n_close, last_reply, hooks >>

\* The DCBs of a stopping branch session are unlinked from it.
session_unlink ==
    /\ \E id \in DOMAIN ses :
          /\ ses[id].state = "SESSION_STATE_STOPPING"
          /\ ses[id].ses_lock = NULL
          /\ ses[id].client_dcb # NULL
          /\ ses' = [ses EXCEPT ![id].client_dcb = NULL, ![id].refcount = 0]
    /\ dcb' = "closed"
    /\ UNCHANGED << awaiting, replies, config, threads, orphanLock, record >>
    /\ UNCHANGED << filters, instance, session, phase, my_session,
                    allOrphans, log_error, n_calls, last_call, n_branch_routed,
                    n_close, last_reply, hooks >>

\* session_free of the core leaves a child session for the tee filter to free.
session_free ==
    /\ \E id \in DOMAIN ses :
          /\ ses[id].state = "SESSION_STATE_STOPPING"
          /\ ses[id].ses_lock = NULL
          /\ ses[id].client_dcb = NULL
          /\ ses[id].refcount = 0
          /\ ses' = [ses EXCEPT ![id].state = "SESSION_STATE_TO_BE_FREED"]
    /\ UNCHANGED << awaiting, replies, config, threads, orphanLock, record >>
    /\ UNCHANGED << filters, instance, session, phase, my_session, dcb,
                    allOrphans, log_error, n_calls, last_call, n_branch_routed,
                    n_close, last_reply, hooks >>

Next ==
    \/ newSession
    \/ routeQuery
    \/ clientReply
    \/ closeSession
    \/ freeSession
    \/ session_stop
    \/ session_unlink
    \/ session_free

Spec == Init /\ [][Next]_vars


(* ------------------------------------------------------------------ *)
(* The clone decision over every buffer and every pair of patterns     *)
(* ------------------------------------------------------------------ *)
InitClone ==
    /\ filters \in { g \in SessionGraphs : g["B"] = << >> }
    /\ session \in ClientSessions({"10.0.0.5"}, {"alice"})
    /\ instance \in Instances(filters, session.service, {NULL}, {NULL},
                              {NULL} \cup Patterns, {NULL} \cup Patterns)
    /\ config = Created
    /\ InitRest

routeQueryAny == route(Buffers)

NextClone ==
    \/ newSession
    \/ routeQueryAny

SpecClone == InitClone /\ [][NextClone]_vars

(* ------------------------------------------------------------------ *)
(* Session creation over every configuration of services and filters   *)
(* ------------------------------------------------------------------ *)
InitLoops ==
    /\ \E n \in FilterCounts : filters \in Graphs(n)
    /\ session \in ClientSessions({"10.0.0.5"}, {"alice"})
    /\ instance \in Instances(filters, session.service, {NULL}, {NULL},
                              {NULL}, {NULL})
    /\ config = Created
    /\ InitRest

NextLoops == newSession

SpecLoops == InitLoops /\ [][NextLoops]_vars


(* ------------------------------------------------------------------ *)
(* Properties of query dispatch                                        *)
(* ------------------------------------------------------------------ *)
READY == "SESSION_STATE_ROUTER_READY"
RecursiveUse == "Recursive use of tee filter in service."

\* C1: every routeQuery call on a live session forwards the original buffer
\* exactly once to the primary downstream routeQuery, whatever the active
\* flag and whatever the branch session.
C1_PrimaryAlwaysForwarded ==
    n_calls > 0 => last_call.down = last_call.queue

\* C2: whenever the primary downstream routeQuery has been called for the
\* buffer, routeQuery returns exactly the status it returned; the branch
\* never changes the value.
C2_ReturnsPrimaryStatus ==
    (n_calls > 0 /\ last_call.down # << >>) => last_call.rval = last_call.status

\* C3: a routeQuery call whose query qualifies for duplication and finds the
\* branch session not ready drops the clone without routing it, adds one to
\* n_rejected, and still routes the primary query and returns its status.
C3_NotReadyCountedRejected ==
    [][ ( /\ phase = "open"
          /\ n_calls' = n_calls + 1
          /\ last_call'.clone # << >>
          /\ my_session.branch_session # NULL
          /\ ses'[my_session.branch_session].state # READY )
        => ( /\ last_call'.branch = << >>
             /\ my_session'.n_rejected = my_session.n_rejected + 1
             /\ last_call'.down = last_call'.queue
             /\ last_call'.rval = last_call'.status ) ]_vars

\* C4: deactivation is permanent: once the active flag of a session is 0 no
\* step sets it back to 1 and no clone is routed into a branch session.
C4_DeactivationPermanent ==
    [][ (phase \in {"open", "freed"} /\ my_session.active = 0)
        => (my_session'.active = 0 /\ n_branch_routed' = n_branch_routed) ]_vars

\* A session deactivated at dispatch (never closed) on which a later query
\* that qualifies for duplication has been dispatched.
C4_Witness ==
    /\ phase = "open"
    /\ my_session.active = 0
    /\ my_session.branch_session # NULL
    /\ n_close = 0
    /\ n_calls >= 2
    /\ last_call.clone # << >>
    /\ last_call.freed = << >>
    /\ last_call.branch = << >>

\* The client has an address that differs from the configured source, or a
\* user name that differs from the configured user.
GateMismatch ==
    \/ /\ instance.source # NULL
       /\ session.remote # NULL
       /\ session.remote # instance.source
    \/ /\ instance.userName # NULL
       /\ session.user # NULL
       /\ session.user # instance.userName

\* C5: a session of a client whose address or user differs from the
\* configured one is not refused by the gates; it is created with active = 0,
\* without branch session or branch client handle, and nothing is ever
\* routed to a branch session for it.
C5_GateMismatchInactive ==
    GateMismatch =>
        /\ phase = "failed" => log_error \in {NULL, RecursiveUse}
        /\ phase \in {"open", "freed"} =>
              /\ my_session.active = 0
              /\ my_session.branch_session = NULL
              /\ my_session.branch_dcb = NULL
              /\ dcb = "none"
              /\ \A id \in SessionIds : ses[id].state = "NONE"
              /\ n_branch_routed = 0
              /\ last_call.branch = << >>
              /\ my_session.n_duped = 0

\* A session created under a user mismatch alone, after a query that
\* qualifies for duplication.
C5_Witness ==
    /\ phase = "open"
    /\ instance.userName # NULL
    /\ session.user \notin {NULL, instance.userName}
    /\ instance.source = NULL
    /\ n_calls > 0
    /\ last_call.clone # << >>

(* ------------------------------------------------------------------ *)
(* Properties of the clone decision                                    *)
(* ------------------------------------------------------------------ *)
RequiredCommands ==
    { MYSQL_COM_QUIT, MYSQL_COM_INITDB, MYSQL_COM_CHANGE_USER,
      MYSQL_COM_STMT_PREPARE, MYSQL_COM_STMT_EXECUTE,
      MYSQL_COM_STMT_SEND_LONG_DATA, MYSQL_COM_STMT_CLOSE,
      MYSQL_COM_STMT_RESET, MYSQL_COM_CONNECT }

\* The buffer of the last call, its command byte (if it has one), its text
\* and whether it was cloned.
Called == n_calls > 0
LastQueue == last_call.queue[1]
IsRequired == LastQueue.length > 4 /\ LastQueue.command \in RequiredCommands
Duplicated == last_call.clone = last_call.queue
Extracted == LastQueue.sql # NULL
MatchesInclude == LastQueue.sql \in Language(instance.match)
MatchesExclude == LastQueue.sql \in Language(instance.nomatch)

\* C6: a buffer whose command byte is a required command is duplicated,
\* whatever patterns are configured and whatever its payload matches.
C6_RequiredAlwaysDuplicated ==
    (Called /\ IsRequired) => Duplicated

\* A required command whose text the configured patterns would reject.
C6_Witness ==
    /\ Called /\ IsRequired /\ Extracted
    /\ instance.match # NULL /\ ~MatchesInclude
    /\ instance.nomatch # NULL /\ MatchesExclude
    /\ Duplicated

\* C7 as stated: for a query that is not a required command, with only an
\* include pattern it is duplicated iff its text is extracted and matches,
\* with only an exclude pattern iff its text is extracted and does not
\* match, and without an extracted text it is never duplicated.
C7_AsStated ==
    (Called /\ ~IsRequired) =>
        /\ (instance.match # NULL /\ instance.nomatch = NULL)
              => (Duplicated <=> (Extracted /\ MatchesInclude))
        /\ (instance.match = NULL /\ instance.nomatch # NULL)
              => (Duplicated <=> (Extracted /\ ~MatchesExclude))
        /\ ~Extracted => ~Duplicated

\* C7 amended: the same, and without an extracted text the query is not
\* duplicated when at least one pattern is configured.
C7_PatternDecision ==
    (Called /\ ~IsRequired) =>
        /\ (instance.match # NULL /\ instance.nomatch = NULL)
              => (Duplicated <=> (Extracted /\ MatchesInclude))
        /\ (instance.match = NULL /\ instance.nomatch # NULL)
              => (Duplicated <=> (Extracted /\ ~MatchesExclude))
        /\ ((instance.match # NULL \/ instance.nomatch # NULL) /\ ~Extracted)
              => ~Duplicated

\* A statement without extractable text under an exclude pattern alone.
C7_Witness ==
    /\ Called /\ ~IsRequired
    /\ instance.match = NULL /\ instance.nomatch # NULL
    /\ LastQueue.command = MYSQL_COM_QUERY
    /\ ~Extracted
    /\ ~Duplicated

\* C8: with both patterns configured, a query that is not a required command
\* and has an extracted text is duplicated iff the text matches the include
\* pattern or does not match the exclude pattern.
C8_BothPatternsOr ==
    (Called /\ ~IsRequired /\ Extracted
        /\ instance.match # NULL /\ instance.nomatch # NULL)
    => (Duplicated <=> (MatchesInclude \/ ~MatchesExclude))

\* A text that matches both patterns and is duplicated.
C8_Witness ==
    /\ Called /\ ~IsRequired /\ Extracted
    /\ instance.match # NULL /\ instance.nomatch # NULL
    /\ MatchesInclude /\ MatchesExclude
    /\ Duplicated

(* ------------------------------------------------------------------ *)
(* Properties of loop detection                                        *)
(* ------------------------------------------------------------------ *)
\* The services that the resolved tee filters of a service lead to.
Targets(svc) == TeeTargets(filters, svc)

\* The services reached from the services of S by one or more tee filters.
RECURSIVE ReachedFrom(_, _)
ReachedFrom(S, seen) ==
    LET next == UNION { Targets(svc) : svc \in S } IN
    IF next \subseteq seen THEN seen
    ELSE ReachedFrom(next \ seen, seen \cup next)

ReachPlus(svc) == ReachedFrom({svc}, {})

\* A cycle among the services reachable from the owning service.
HasCycle ==
    \E svc \in {session.service} \cup ReachPlus(session.service) :
        svc \in ReachPlus(svc)

\* C9: newSession fails, and creates neither a branch client handle nor a
\* branch session, when the owning service is the target service or the
\* services reachable from the owning service through resolved tee filters
\* contain a cycle.
C9_CycleRefused ==
    (phase # "init" /\ (instance.service = session.service \/ HasCycle))
    => /\ phase = "failed"
       /\ log_error = RecursiveUse
       /\ my_session.branch_session = NULL
       /\ my_session.branch_dcb = NULL
       /\ dcb = "none"
       /\ \A id \in SessionIds : ses[id].state = "NONE"

\* The cycle A -> B -> A, refused.
C9_Witness ==
    /\ phase = "failed"
    /\ instance.service = "B"
    /\ "A" \in Targets("B")
    /\ "A" \notin Targets("A")
    /\ log_error = RecursiveUse

\* C10: a configuration without a cycle among the services reachable from
\* the owning service is never refused for recursion.
C10_NoCycleAccepted ==
    (phase # "init" /\ ~HasCycle /\ instance.service # session.service)
    => log_error # RecursiveUse


(* ------------------------------------------------------------------ *)
(* Properties of closeSession                                          *)
(* ------------------------------------------------------------------ *)
STOPPING == "SESSION_STATE_STOPPING"
TO_BE_FREED == "SESSION_STATE_TO_BE_FREED"

\* A step that is a call of closeSession.
CloseStep == phase = "open" /\ n_close' = n_close + 1

\* C11: the first closeSession of a filter session that has a branch session
\* leaves the branch session stopping and calls the closeSession hook of the
\* branch router exactly once, whatever the state of the branch session and
\* whether or not duplication was switched off earlier.
C11_FirstCloseStopsBranch ==
    [][ (CloseStep /\ n_close = 0 /\ my_session.branch_session # NULL)
        => ( /\ ses'[my_session.branch_session].state = STOPPING
             /\ hooks'.router_closeSession = hooks.router_closeSession + 1 ) ]_vars

\* C12: closeSession on a session that has been closed changes nothing of the
\* session, of the branch session, of the DCBs and of the orphan list, writes
\* no error reply and does not call the closeSession hook of the router.
C12_CloseIdempotent ==
    [][ (CloseStep /\ n_close > 0)
        => UNCHANGED << my_session, ses, dcb, allOrphans, hooks, log_error,
                        last_call, last_reply, replies, awaiting, phase >> ]_vars

\* A second closeSession on a session whose first one closed its branch.
C12_Witness ==
    /\ n_close = 2
    /\ my_session.branch_session # NULL
    /\ hooks.router_closeSession = 1

\* The first closeSession comes while the primary has yet to answer a query
\* that is no COM_QUIT, and the client DCB polls.
MidQueryClose ==
    /\ n_close = 0
    /\ awaiting # << >>
    /\ awaiting[1] # MYSQL_COM_QUIT
    /\ session.client_dcb = "DCB_STATE_POLLING"

\* C13: closeSession writes exactly one error reply to the client when it
\* comes in the middle of a query that is no COM_QUIT and the client DCB
\* polls, and none otherwise.
C13_MidQueryCloseWritesError ==
    [][ CloseStep
        => hooks'.client_write =
               hooks.client_write + (IF MidQueryClose THEN 1 ELSE 0) ]_vars


(* ------------------------------------------------------------------ *)
(* freeSession on several threads, step by step                        *)
(* ------------------------------------------------------------------ *)
\* The threads of the server; each frees one closed filter session.
Threads == { "thread" \o ToString(i) : i \in 1..NumThreads }

\* The branch session of the filter session that thread t frees.
branch_of(t) == "ses_of_" \o t

OrphanSessions == { branch_of(t) : t \in Threads }

\* The variables of the single session of Spec, which no thread touches.
session_vars == << filters, instance, session, phase, my_session, dcb,
                   log_error, n_calls, last_call, n_branch_routed, n_close,
                   last_reply, awaiting, replies, config, record >>

\* The branch of freeSession that disposes of a branch session in every state.
dispose_frees_stopping(state) ==
    IF state = "SESSION_STATE_ROUTER_READY" THEN "session_put_ref"
    ELSE IF state = "SESSION_STATE_TO_BE_FREED" THEN "free"
    ELSE IF state = "SESSION_STATE_STOPPING" THEN "free"
    ELSE "none"

\* What freeSession does with its branch session, by the state it has read.
dispose(state) ==
    IF state = "SESSION_STATE_ROUTER_READY" THEN "session_put_ref"
    ELSE IF state = "SESSION_STATE_TO_BE_FREED" THEN "free"
    ELSE IF state = "SESSION_STATE_STOPPING" THEN "create_orphan"
    ELSE "none"

\* Filter sessions that have been closed: without a branch session, or with
\* one that closeSession has left stopping. Nothing is on the orphan list.
InitOrphan ==
    /\ filters \in { g \in SessionGraphs : g["B"] = << >> }
    /\ session \in ClientSessions({"10.0.0.5"}, {"alice"})
    /\ instance \in Instances(filters, session.service, {NULL}, {NULL},
                              {NULL}, {NULL})
    /\ config = Created
    /\ phase = "init"
    /\ my_session = TEE_SESSION
    /\ ses \in [OrphanSessions ->
                   {NoSession,
                    [session_alloc EXCEPT !.state = "SESSION_STATE_STOPPING"]}]
    /\ threads = [t \in Threads |->
                     [pc |-> "freeSession", active |-> 0,
                      branch_session |-> IF ses[branch_of(t)].state = "NONE"
                                         THEN NULL ELSE branch_of(t),
                      state |-> "NONE", next |-> << >>, todo |-> << >>,
                      finished |-> << >>, marked |-> {}]]
    /\ orphanLock = NULL
    /\ dcb = "open"
    /\ allOrphans = << >>
    /\ log_error = NULL
    /\ n_calls = 0
    /\ last_call = NoCall
    /\ n_branch_routed = 0
    /\ n_close = 0
    /\ last_reply = NoReply
    /\ hooks = [router_closeSession |-> 0, router_freeSession |-> 0,
                client_write |-> 0]
    /\ awaiting = << >>
    /\ replies = NoReplies
    /\ record = "none"

\* freeSession reads the state of its branch session.
fs_read(t) ==
    /\ threads[t].pc = "freeSession"
    /\ LET b == threads[t].branch_session IN
          threads' = [threads EXCEPT
                         ![t].state = IF b = NULL THEN "NONE" ELSE ses[b].state,
                         ![t].pc = "dispose"]
    /\ UNCHANGED << ses, allOrphans, hooks, orphanLock >>
    /\ UNCHANGED session_vars

\* freeSession disposes of the branch session by the state it has read: a
\* reference is dropped, or the session is freed, or create_orphan is called.
fs_dispose(t) ==
    /\ threads[t].pc = "dispose"
    /\ LET b == threads[t].branch_session
           what == dispose(threads[t].state)
       IN
       /\ ses' = IF what = "session_put_ref" THEN session_put_ref(ses, b)
                 ELSE IF what = "free"
                 THEN [ses EXCEPT ![b].state = "SESSION_STATE_FREE",
                                  ![b].n_free = ses[b].n_free + 1]
                 ELSE ses
       /\ hooks' = IF what = "free"
                   THEN [hooks EXCEPT !.router_freeSession = @ + 1]
                   ELSE hooks
       /\ threads' = [threads EXCEPT
                         ![t].branch_session = IF what = "free" THEN NULL ELSE b,
                         ![t].pc = IF what = "create_orphan"
                                   THEN "create_orphan" ELSE "orphan_free"]
    /\ UNCHANGED << allOrphans, orphanLock >>
    /\ UNCHANGED session_vars

\* create_orphan that goes on without orphanLock.
co_acquire_unlocked(t) ==
    /\ threads[t].pc = "create_orphan"
    /\ threads' = [threads EXCEPT ![t].pc = "co_link"]
    /\ UNCHANGED << ses, allOrphans, hooks, orphanLock >>
    /\ UNCHANGED session_vars

\* create_orphan has its entry and takes orphanLock.
co_acquire(t) ==
    /\ threads[t].pc = "create_orphan"
    /\ orphanLock = NULL
    /\ orphanLock' = t
    /\ threads' = [threads EXCEPT ![t].pc = "co_link"]
    /\ UNCHANGED << ses, allOrphans, hooks >>
    /\ UNCHANGED session_vars

\* orphan->next = allOrphans.
co_link(t) ==
    /\ threads[t].pc = "co_link"
    /\ threads' = [threads EXCEPT ![t].next = allOrphans,
                                  ![t].pc = "co_publish"]
    /\ UNCHANGED << ses, allOrphans, hooks, orphanLock >>
    /\ UNCHANGED session_vars

\* allOrphans = orphan.
co_publish(t) ==
    /\ threads[t].pc = "co_publish"
    /\ allOrphans' = create_orphan(threads[t].next, threads[t].branch_session)
    /\ threads' = [threads EXCEPT ![t].pc = "co_release"]
    /\ UNCHANGED << ses, hooks, orphanLock >>
    /\ UNCHANGED session_vars

\* create_orphan releases orphanLock and returns.
co_release(t) ==
    /\ threads[t].pc = "co_release"
    /\ orphanLock' = NULL
    /\ threads' = [threads EXCEPT ![t].pc = "orphan_free"]
    /\ UNCHANGED << ses, allOrphans, hooks >>
    /\ UNCHANGED session_vars

\* orphan_free takes orphanLock and starts at the head of the list.
of_acquire(t) ==
    /\ threads[t].pc = "orphan_free"
    /\ orphanLock = NULL
    /\ orphanLock' = t
    /\ threads' = [threads EXCEPT ![t].todo = allOrphans,
                                  ![t].finished = << >>,
                                  ![t].marked = {},
                                  ![t].pc = "scan"]
    /\ UNCHANGED << ses, allOrphans, hooks >>
    /\ UNCHANGED session_vars

\* One round of the first loop of orphan_free, for the next entry. marked
\* keeps the sessions that this call has moved to TO_BE_FREED.
of_scan(t) ==
    /\ threads[t].pc = "scan"
    /\ threads[t].todo # << >>
    /\ LET ptr == Head(threads[t].todo)
           scan == orphan_scan(<< ptr >>, allOrphans, threads[t].finished, ses)
           moved == /\ ses[ptr].state = "SESSION_STATE_STOPPING"
                    /\ scan.ses[ptr].state = "SESSION_STATE_TO_BE_FREED"
       IN /\ allOrphans' = scan.allOrphans
          /\ ses' = scan.ses
          /\ threads' = [threads EXCEPT
                            ![t].todo = Tail(@),
                            ![t].finished = scan.finished,
                            ![t].marked = IF moved THEN @ \cup {ptr} ELSE @]
    /\ UNCHANGED << hooks, orphanLock >>
    /\ UNCHANGED session_vars

\* The end of the list: orphan_free releases orphanLock.
of_release(t) ==
    /\ threads[t].pc = "scan"
    /\ threads[t].todo = << >>
    /\ orphanLock' = NULL
    /\ threads' = [threads EXCEPT
                      ![t].pc = IF threads[t].finished = << >>
                                THEN "done" ELSE "free"]
    /\ UNCHANGED << ses, allOrphans, hooks >>
    /\ UNCHANGED session_vars

\* One round of the second loop of orphan_free, for the next finished entry.
of_free(t) ==
    /\ threads[t].pc = "free"
    /\ LET done == free_finished(<< Head(threads[t].finished) >>, ses, hooks)
       IN /\ ses' = done.ses
          /\ hooks' = done.hooks
    /\ threads' = [threads EXCEPT
                      ![t].finished = Tail(@),
                      ![t].pc = IF Tail(threads[t].finished) = << >>
                                THEN "done" ELSE "free"]
    /\ UNCHANGED << allOrphans, orphanLock >>
    /\ UNCHANGED session_vars

NextOrphan ==
    \/ \E t \in Threads : fs_read(t)
    \/ \E t \in Threads : fs_dispose(t)
    \/ \E t \in Threads : co_acquire(t)
    \/ \E t \in Threads : co_link(t)
    \/ \E t \in Threads : co_publish(t)
    \/ \E t \in Threads : co_release(t)
    \/ \E t \in Threads : of_acquire(t)
    \/ \E t \in Threads : of_scan(t)
    \/ \E t \in Threads : of_release(t)
    \/ \E t \in Threads : of_free(t)
    \/ session_unlink
    \/ session_free

SpecOrphan == InitOrphan /\ [][NextOrphan]_vars


(* ------------------------------------------------------------------ *)
(* Properties of the orphan list                                       *)
(* ------------------------------------------------------------------ *)
\* The session has an entry on the list.
InList(list, id) == \E i \in 1..Len(list) : list[i] = id

\* The session is freed by this step.
Freed(id) == ses'[id].n_free > ses[id].n_free

\* No reference and no client DCB is left on the session.
Unreferenced(id) == ses[id].refcount = 0 /\ ses[id].client_dcb = NULL

\* The thread is past the if-chain of freeSession, which is the last thing
\* freeSession does with its own branch session.
Disposed(t) ==
    threads[t].pc \in {"create_orphan", "co_link", "co_publish", "co_release",
                       "orphan_free", "scan", "free", "done"}

RECURSIVE SumFreed(_)
SumFreed(ids) ==
    IF ids = {} THEN 0
    ELSE LET id == CHOOSE x \in ids : TRUE
         IN ses[id].n_free + SumFreed(ids \ {id})

\* C15: in every interleaving of the threads that run freeSession, with its
\* create_orphan and orphan_free, every branch session is freed at most once,
\* by freeSession or by an orphan_free but never by both, and the freeSession
\* hook of its router is called once for every session freed.
C15_FreedAtMostOnce ==
    /\ \A id \in DOMAIN ses : ses[id].n_free <= 1
    /\ hooks.router_freeSession = SumFreed(DOMAIN ses)

\* One branch session was freed by the freeSession of its filter session
\* and another one, an orphan, by an orphan_free.
C15_Witness ==
    \E t, u \in Threads :
        /\ threads[t].branch_session = NULL
        /\ ses[branch_of(t)].n_free = 1
        /\ threads[u].branch_session # NULL
        /\ ses[branch_of(u)].n_free = 1

\* C16: an entry leaves the orphan list, and its session is freed, only when
\* the session has no reference and no client DCB: an orphan whose session
\* has a reference or a client DCB stays on the list and is not freed.
C16_UnlinkedUnreferenced ==
    [][ \A id \in DOMAIN ses :
            ( \/ InList(allOrphans, id) /\ ~InList(allOrphans', id)
              \/ Freed(id) )
            => Unreferenced(id) ]_vars

\* An orphan has left the list and has been freed.
C16_Witness ==
    \E t \in Threads :
        /\ Disposed(t)
        /\ threads[t].branch_session # NULL
        /\ ~InList(allOrphans, threads[t].branch_session)
        /\ ses[threads[t].branch_session].state = "SESSION_STATE_FREE"

\* C17: once no freeSession is running or to come, no orphan whose session
\* stopped with no reference and no client DCB is left on the list: the
\* orphan of the last filter session freed is reclaimed as well.
C17_QuiescentReclaimed ==
    (\A t \in Threads : threads[t].pc = "done")
    => \A id \in DOMAIN ses :
          ( /\ ses[id].state \in {STOPPING, TO_BE_FREED}
            /\ Unreferenced(id) )
          => ~InList(allOrphans, id)


(* ------------------------------------------------------------------ *)
(* createInstance                                                      *)
(* ------------------------------------------------------------------ *)
\* service_find: the service of that name, if there is one.
service_find(name) == IF name \in Services THEN name ELSE NULL

\* regcomp: 0 for a pattern that compiles.
regcomp(re) == IF re \in Patterns THEN 0 ELSE 1

\* The parameters that every filter has and the core reads itself.
filter_standard_parameter(name) == name \in {"type", "module"}

\* The parameters a configuration file can hold for the filter.
Parameters ==
    { [name |-> "service", value |-> "B"],
      [name |-> "service", value |-> "nosuch"],
      [name |-> "match", value |-> "^SELECT"],
      [name |-> "match", value |-> "("],
      [name |-> "exclude", value |-> "^INSERT"],
      [name |-> "exclude", value |-> "("],
      [name |-> "source", value |-> "10.0.0.5"],
      [name |-> "user", value |-> "alice"],
      [name |-> "type", value |-> "filter"],
      [name |-> "bogus", value |-> "1"] }

Options == {"ignorecase", "case", "extended", "bogus"}

\* The sequences over a set of at most n elements.
SeqsUpTo(set, n) == UNION { [1..k -> set] : k \in 0..n }

\* The zeroed TEE_INSTANCE.
TEE_INSTANCE == [service |-> NULL, source |-> NULL, userName |-> NULL,
                 match |-> NULL, nomatch |-> NULL]

\* The loop of createInstance over the parameters: the instance after the
\* parameters and the number of errors logged.
RECURSIVE read_params(_, _, _)
read_params(params, inst, errors) ==
    IF params = << >> THEN [instance |-> inst, errors |-> errors]
    ELSE LET p == Head(params) IN
         IF p.name = "service"
         THEN read_params(Tail(params),
                          [inst EXCEPT !.service = service_find(p.value)],
                          IF service_find(p.value) = NULL
                          THEN errors + 1 ELSE errors)
         ELSE IF p.name = "match"
         THEN read_params(Tail(params), [inst EXCEPT !.match = p.value], errors)
         ELSE IF p.name = "exclude"
         THEN read_params(Tail(params), [inst EXCEPT !.nomatch = p.value], errors)
         ELSE IF p.name = "source"
         THEN read_params(Tail(params), [inst EXCEPT !.source = p.value], errors)
         ELSE IF p.name = "user"
         THEN read_params(Tail(params), [inst EXCEPT !.userName = p.value], errors)
         ELSE IF ~filter_standard_parameter(p.name)
         THEN read_params(Tail(params), inst, errors + 1)
         ELSE read_params(Tail(params), inst, errors)

\* The options that set a flag of regcomp.
known_option(o) == o \in {"ignorecase", "case", "extended"}

\* The errors logged for the options: one for having any, one for each
\* that sets no flag.
option_errors(options) ==
    (IF options # << >> THEN 1 ELSE 0)
    + Cardinality({ i \in 1..Len(options) : ~known_option(options[i]) })

\* The body of createInstance: what it returns, the instance and the
\* number of errors logged.
create_instance(options, params) ==
    LET read == read_params(params, TEE_INSTANCE, option_errors(options))
        inst == read.instance
    IN IF inst.service = NULL
       THEN [ret |-> "NULL", instance |-> TEE_INSTANCE, errors |-> read.errors]
       ELSE IF inst.match # NULL /\ regcomp(inst.match) # 0
       THEN [ret |-> "NULL", instance |-> TEE_INSTANCE,
             errors |-> read.errors + 1]
       ELSE IF inst.nomatch # NULL /\ regcomp(inst.nomatch) # 0
       THEN [ret |-> "NULL", instance |-> TEE_INSTANCE,
             errors |-> read.errors + 1]
       ELSE [ret |-> "instance", instance |-> inst, errors |-> read.errors]

\* The filter is about to be created from a configuration.
InitCreate ==
    /\ filters \in { g \in SessionGraphs : g["B"] = << >> }
    /\ session \in ClientSessions({"10.0.0.5"}, {"alice"})
    /\ instance = TEE_INSTANCE
    /\ \E options \in SeqsUpTo(Options, MaxOptions),
          params \in SeqsUpTo(Parameters, MaxParams) :
          config = [options |-> options, params |-> params, ret |-> "none",
                    errors |-> 0]
    /\ InitRest

createInstance ==
    /\ config.ret = "none"
    /\ \E calloc_ok \in BOOLEAN :
          LET made == create_instance(config.options, config.params) IN
          IF calloc_ok
          THEN /\ config' = [config EXCEPT !.ret = made.ret,
                                           !.errors = made.errors]
               /\ instance' = made.instance
          ELSE /\ config' = [config EXCEPT !.ret = "NULL"]
               /\ UNCHANGED instance
    /\ UNCHANGED << filters, session, phase, my_session, ses, dcb, allOrphans,
                    log_error, n_calls, last_call, n_branch_routed, n_close,
                    last_reply, hooks, awaiting, replies, threads, orphanLock,
                    record >>

NextCreate == createInstance

SpecCreate == InitCreate /\ [][NextCreate]_vars

\* The configuration has a parameter of that name.
HasParam(name) ==
    \E i \in 1..Len(config.params) : config.params[i].name = name

\* The configuration has that parameter with a value that regcomp refuses.
BadPattern(name) ==
    \E i \in 1..Len(config.params) :
        /\ config.params[i].name = name
        /\ regcomp(config.params[i].value) # 0

\* The configuration errors: no service or one that is not found, a match
\* or exclude pattern that does not compile, a parameter of an unexpected
\* name, an option that is not supported.
ConfigError ==
    \/ ~HasParam("service")
    \/ \E i \in 1..Len(config.params) :
          /\ config.params[i].name = "service"
          /\ service_find(config.params[i].value) = NULL
    \/ BadPattern("match")
    \/ BadPattern("exclude")
    \/ \E i \in 1..Len(config.params) :
          /\ config.params[i].name
                \notin {"service", "match", "exclude", "source", "user"}
          /\ ~filter_standard_parameter(config.params[i].name)
    \/ \E i \in 1..Len(config.options) : ~known_option(config.options[i])

\* C18: createInstance returns no instance for a configuration with an
\* error: a service that is missing or not found, a match or exclude pattern
\* that does not compile, an unexpected parameter, an unsupported option.
C18_ConfigErrorNoInstance ==
    (config.ret # "none" /\ ConfigError) => config.ret = "NULL"


(* ------------------------------------------------------------------ *)
(* Replies                                                             *)
(* ------------------------------------------------------------------ *)
\* The replies of the primary.
ReplyBuffers == {"OK", "ERR"}

\* The replies of the branch session.
BranchReplies == {"BRANCH_OK"}

clientReplyAny == reply_upstream(ReplyBuffers, MaxReplyLog)

\* The branch session answers a clone it was given: the reply is written to
\* the client DCB of the branch session, which is the clone made by
\* newSession, and goes no further.
branch_reply ==
    /\ phase = "open"
    /\ Len(replies.branch) < n_branch_routed
    /\ \E reply \in BranchReplies :
          replies' = [replies EXCEPT !.branch = Append(@, reply)]
    /\ UNCHANGED << awaiting, config, threads, orphanLock, record >>
    /\ UNCHANGED << filters, instance, session, phase, my_session, ses, dcb,
                    allOrphans, log_error, n_calls, last_call, n_branch_routed,
                    n_close, last_reply, hooks >>

InitReply ==
    /\ filters \in { g \in SessionGraphs : g["B"] = << >> }
    /\ session \in ClientSessions({"10.0.0.5"}, {"alice"})
    /\ instance \in Instances(filters, session.service, {NULL}, {NULL},
                              {NULL}, {NULL})
    /\ config = Created
    /\ InitRest

NextReply ==
    \/ newSession
    \/ routeQuery
    \/ clientReplyAny
    \/ branch_reply

SpecReply == InitReply /\ [][NextReply]_vars

\* C19: the replies passed to the upstream clientReply are the replies
\* handed to clientReply, each once, unchanged and in the order of arrival;
\* clientReply returns the status of the upstream; nothing else goes
\* upstream, and no reply of the branch session is among them.
C19_RepliesPassThrough ==
    /\ replies.up = replies.handed
    /\ last_reply.up = last_reply.reply
    /\ last_reply.rval = last_reply.status
    /\ \A i \in 1..Len(replies.up) : replies.up[i] \notin BranchReplies

\* Two different replies of the primary have come, and one of the branch.
C19_Witness ==
    /\ Len(replies.handed) = 2
    /\ replies.handed[1] # replies.handed[2]
    /\ replies.up = replies.handed
    /\ replies.branch # << >>

\* C20: n_duped is the number of clones routed into the branch session,
\* also when the branch session leaves the ready state during the dispatch.
C20_DupedCountsRouted ==
    my_session.n_duped = n_branch_routed

(* ------------------------------------------------------------------ *)
(* Buffers and session records                                         *)
(* ------------------------------------------------------------------ *)
\* C25: the clone that routeQuery has made of a query is consumed exactly
\* once before routeQuery returns: it is routed into the branch session or
\* it is freed, whatever the state of the session and of its branch.
C25_CloneConsumedOnce ==
    (n_calls > 0 /\ last_call.clone # << >>)
    => ( \/ last_call.branch = last_call.clone /\ last_call.freed = << >>
         \/ last_call.freed = last_call.clone /\ last_call.branch = << >> )

\* newSession has returned NULL because dcb_clone or session_alloc failed.
BranchFailed ==
    /\ phase = "failed"
    /\ log_error \in {"Creating client DCB for Tee filter failed.",
                      "Creating client session for Tee filter failed."}

\* C24: when the client DCB cannot be cloned or the branch session cannot
\* be created for an active new session, newSession returns no session and
\* leaves nothing behind: the session record is freed, the clone of the
\* client DCB, if it was made, is closed, there is no branch session and no
\* entry has been added to the orphan list.
C24_FailureLeavesNothing ==
    BranchFailed
    => ( /\ record = "freed"
         /\ dcb # "open"
         /\ \A id \in DOMAIN ses : ses[id].state = "NONE"
         /\ allOrphans = << >> )

\* session_alloc has failed after the client DCB was cloned.
C24_Witness ==
    /\ BranchFailed
    /\ dcb = "closed"
    /\ record = "freed"

(* ------------------------------------------------------------------ *)
(* Properties of the locks and of the scans                            *)
(* ------------------------------------------------------------------ *)
\* The thread takes this step.
Acts(t) == threads'[t] # threads[t]

\* The number of entries of the list for the session.
Count(list, id) == Cardinality({ i \in 1..Len(list) : list[i] = id })

\* The number of entries for the session on the finished lists of the
\* threads.
Finished(id) ==
    Cardinality({ p \in Threads \X (1..NumThreads) :
                    /\ p[2] <= Len(threads[p[1]].finished)
                    /\ threads[p[1]].finished[p[2]] = id })

\* The freeSession of the thread has called create_orphan for its branch
\* session and create_orphan has put it on the list.
Registered(t) ==
    /\ threads[t].state = STOPPING
    /\ threads[t].branch_session # NULL
    /\ threads[t].pc \in {"co_release", "orphan_free", "scan", "free", "done"}

\* Every session registered is on the list once, or on the finished list of
\* one thread, or freed.
NotLost ==
    \A t \in Threads :
        Registered(t)
        => Count(allOrphans, threads[t].branch_session)
           + Finished(threads[t].branch_session)
           + ses[threads[t].branch_session].n_free = 1

\* C23: the orphan list is read and written by the holder of orphanLock
\* only, and no entry that create_orphan inserts while another thread scans
\* is lost: a registered session is on the list exactly once or has been
\* unlinked to be freed.
C23_ListUnderLock ==
    [][ /\ \A t \in Threads :
             ( /\ Acts(t)
               /\ threads[t].pc \in {"co_link", "co_publish", "scan"} )
             => orphanLock = t
        /\ allOrphans' # allOrphans
             => \E t \in Threads : Acts(t) /\ orphanLock = t
        /\ NotLost' ]_vars

\* One thread is about to insert its orphan while another thread, which
\* holds orphanLock, is in the middle of its scan.
C23_Witness ==
    \E t, u \in Threads :
        /\ threads[t].pc = "create_orphan"
        /\ threads[u].pc = "scan"
        /\ threads[u].todo # << >>
        /\ orphanLock = u

\* C26 as stated: an orphan_free call does not unlink the entry of a session
\* that it has moved to TO_BE_FREED itself, and the orphan that a freeSession
\* has registered is not unlinked by the orphan_free at the end of the same
\* freeSession.
C26_AsStated ==
    \A t \in Threads :
        /\ \A id \in threads[t].marked : Count(threads[t].finished, id) = 0
        /\ Registered(t) => Count(threads[t].finished, threads[t].branch_session) = 0

\* C26: an orphan_free call does not unlink and does not free the entry of a
\* session that it has moved from stopping to TO_BE_FREED itself: the entry
\* stays on the list for a later call, or is on its way to be freed by
\* another thread.
C26_MarkedLeftForLaterCall ==
    \A t \in Threads :
        \A id \in threads[t].marked :
            /\ Count(threads[t].finished, id) = 0
            /\ Count(allOrphans, id) + Finished(id) + ses[id].n_free = 1

\* An orphan_free call has moved a session to TO_BE_FREED and has returned
\* with the session still on the list.
C26_Witness ==
    \E t \in Threads :
        /\ threads[t].pc = "done"
        /\ \E id \in threads[t].marked :
              /\ InList(allOrphans, id)
              /\ ses[id].state = TO_BE_FREED

(* ------------------------------------------------------------------ *)
(* closeSession and freeSession on several threads, step by step       *)
(* ------------------------------------------------------------------ *)
\* The filter sessions that come to be closed: one that duplicates into a
\* ready branch session, one that the source or user gate has left without
\* a branch session, one that route_single_query has switched off because
\* its branch session was stopping.
Kinds == {"active", "gated", "torn"}

\* The branch session of a filter session of that kind.
branch_at_close(kind) ==
    IF kind = "active" THEN session_alloc
    ELSE IF kind = "torn"
    THEN [session_alloc EXCEPT !.state = "SESSION_STATE_STOPPING"]
    ELSE NoSession

\* The thread whose filter session the branch session belongs to.
owner(id) == CHOOSE t \in Threads : branch_of(t) = id

InitLocks ==
    /\ filters \in { g \in SessionGraphs : g["B"] = << >> }
    /\ session \in ClientSessions({"10.0.0.5"}, {"alice"})
    /\ instance \in Instances(filters, session.service, {NULL}, {NULL},
                              {NULL}, {NULL})
    /\ config = Created
    /\ phase = "init"
    /\ my_session = TEE_SESSION
    /\ \E kind \in [Threads -> Kinds] :
          /\ ses = [id \in OrphanSessions |-> branch_at_close(kind[owner(id)])]
          /\ threads = [t \in Threads |->
                           [pc |-> "closeSession",
                            active |-> IF kind[t] = "active" THEN 1 ELSE 0,
                            branch_session |-> IF kind[t] = "gated"
                                               THEN NULL ELSE branch_of(t),
                            state |-> "NONE", next |-> << >>, todo |-> << >>,
                            finished |-> << >>, marked |-> {}]]
    /\ orphanLock = NULL
    /\ dcb = "open"
    /\ allOrphans = << >>
    /\ log_error = NULL
    /\ n_calls = 0
    /\ last_call = NoCall
    /\ n_branch_routed = 0
    /\ n_close = 0
    /\ last_reply = NoReply
    /\ hooks = [router_closeSession |-> 0, router_freeSession |-> 0,
                client_write |-> 0]
    /\ awaiting = << >>
    /\ replies = NoReplies
    /\ record = "none"

\* closeSession tests the active flag and, for a session that duplicates
\* and has a branch session, takes the lock of the branch session.
cs_enter(t) ==
    /\ threads[t].pc = "closeSession"
    /\ LET b == threads[t].branch_session IN
       IF threads[t].active = 0
       THEN /\ threads' = [threads EXCEPT ![t].pc = "freeSession"]
            /\ UNCHANGED ses
       ELSE IF b = NULL
       THEN /\ threads' = [threads EXCEPT ![t].active = 0,
                                          ![t].pc = "freeSession"]
            /\ UNCHANGED ses
       ELSE /\ ses[b].ses_lock = NULL
            /\ ses' = [ses EXCEPT ![b].ses_lock = t]
            /\ threads' = [threads EXCEPT ![t].pc = "cs_locked"]
    /\ UNCHANGED << allOrphans, hooks, orphanLock >>
    /\ UNCHANGED session_vars

\* closeSession that keeps the lock of the branch session while it calls
\* the router.
cs_stop_locked(t) ==
    /\ threads[t].pc = "cs_locked"
    /\ ses' = [ses EXCEPT
                  ![threads[t].branch_session].state = "SESSION_STATE_STOPPING"]
    /\ threads' = [threads EXCEPT ![t].pc = "cs_router"]
    /\ UNCHANGED << allOrphans, hooks, orphanLock >>
    /\ UNCHANGED session_vars

\* closeSession sets the branch session stopping, takes note of its router
\* and releases the lock of the branch session.
cs_stop(t) ==
    /\ threads[t].pc = "cs_locked"
    /\ ses' = [ses EXCEPT
                  ![threads[t].branch_session].state = "SESSION_STATE_STOPPING",
                  ![threads[t].branch_session].ses_lock = NULL]
    /\ threads' = [threads EXCEPT ![t].pc = "cs_router"]
    /\ UNCHANGED << allOrphans, hooks, orphanLock >>
    /\ UNCHANGED session_vars

\* closeSession calls the closeSession of the router of the branch and
\* clears the active flag; the parent side never waits, so no error is
\* written.
cs_router(t) ==
    /\ threads[t].pc = "cs_router"
    /\ hooks' = [hooks EXCEPT !.router_closeSession = @ + 1]
    /\ threads' = [threads EXCEPT ![t].active = 0, ![t].pc = "freeSession"]
    /\ UNCHANGED << ses, allOrphans, orphanLock >>
    /\ UNCHANGED session_vars

NextLocks ==
    \/ \E t \in Threads : cs_enter(t)
    \/ \E t \in Threads : cs_stop(t)
    \/ \E t \in Threads : cs_router(t)
    \/ \E t \in Threads : fs_read(t)
    \/ \E t \in Threads : fs_dispose(t)
    \/ \E t \in Threads : co_acquire(t)
    \/ \E t \in Threads : co_link(t)
    \/ \E t \in Threads : co_publish(t)
    \/ \E t \in Threads : co_release(t)
    \/ \E t \in Threads : of_acquire(t)
    \/ \E t \in Threads : of_scan(t)
    \/ \E t \in Threads : of_release(t)
    \/ \E t \in Threads : of_free(t)
    \/ session_stop
    \/ session_unlink
    \/ session_free

SpecLocks == InitLocks /\ [][NextLocks]_vars

\* The thread holds orphanLock or the lock of a branch session.
HoldsLock(t) ==
    \/ orphanLock = t
    \/ \E id \in DOMAIN ses : ses[id].ses_lock = t

\* C21: a thread that calls a hook of the branch router holds no lock of the
\* filter: orphan_free calls the freeSession hook after it has released
\* orphanLock, and closeSession calls the closeSession hook after it has
\* released the lock of the branch session.
C21_HooksOutsideLocks ==
    [][ \A t \in Threads :
            ( /\ Acts(t)
              /\ \/ hooks'.router_freeSession # hooks.router_freeSession
                 \/ hooks'.router_closeSession # hooks.router_closeSession )
            => ~HoldsLock(t) ]_vars

\* closeSession has called the router of a branch session and an orphan_free
\* has called the router to free one.
C21_Witness ==
    /\ hooks.router_closeSession > 0
    /\ \E t \in Threads :
          /\ threads[t].branch_session # NULL
          /\ ses[threads[t].branch_session].n_free = 1

\* C22: the filter reads and writes the state of a branch session with the
\* lock of the branch session held: in closeSession when it sets the state,
\* in freeSession when it reads the state and when it sets it to FREE, in
\* orphan_free when it tests and marks the session of an entry.
C22_StateUnderSessionLock ==
    [][ \A t \in Threads :
            Acts(t)
            => LET b == threads[t].branch_session IN
               /\ threads[t].pc = "cs_locked" => ses[b].ses_lock = t
               /\ (threads[t].pc = "freeSession" /\ b # NULL)
                     => ses[b].ses_lock = t
               /\ ( /\ threads[t].pc = "dispose"
                    /\ dispose(threads[t].state) = "free" )
                     => ses[b].ses_lock = t
               /\ (threads[t].pc = "scan" /\ threads[t].todo # << >>)
                     => ses[Head(threads[t].todo)].ses_lock = t ]_vars

====
